---------------------------- MODULE Spec2Model ----------------------------
(***************************************************************************)
(* Model of audiotool's "removeprefix" subcommand (src/main.go).           *)
(*                                                                         *)
(* Filenames are Go strings, i.e. byte sequences: a filename is a          *)
(* sequence of integers 0..255, indexed from 1 (Go index i is i+1 here).   *)
(*                                                                         *)
(* A path is the sequence of its components (filepath.Join of them): the   *)
(* root "/r" is << "r" >>, the file "/r/d/x" is << "r", "d", "x" >>, each   *)
(* component a filename.                                                   *)
(*                                                                         *)
(* The specifications of the module:                                       *)
(*   SpecFn     applies the pure functions findCommonPrefix and            *)
(*              findMajorityPrefix to input slices, as the unit tests do;  *)
(*   Spec       runs processDirectory on one directory group: detection,   *)
(*              planning, confirmation and the rename loop over a disk;    *)
(*   SpecFiles  applies collectFiles to a file tree and                    *)
(*              groupFilesByDirectory to a list of paths, as the unit      *)
(*              tests do;                                                  *)
(*   SpecCmd    runs removePrefixCommand on a file tree: collection,       *)
(*              grouping and processDirectory on every group;              *)
(*   FairSpecCmd  is SpecCmd with the assumption that the command runs on  *)
(*              wherever it does not wait for the operator.                *)
(***************************************************************************)
EXTENDS Integers, Sequences, FiniteSets, TLC

VARIABLES
    strs,          \* SpecFn: the []string handed to the function under test
    fnpc,          \* SpecFn: "input" | "common" | "majority"
    cpResult,      \* SpecFn: what findCommonPrefix(strs) returned
    mpResult,      \* SpecFn: what findMajorityPrefix(strs) returned
    pc,            \* Spec: position in processDirectory
    files,         \* Spec: the group's filenames, in traversal order
    dir,           \* Spec: the group's directory (processDirectory's dir)
    tree,          \* the file system: path -> identity of the file stored there
    tree0,         \* the file system as it was at the start
    refuse,        \* the paths the file system refuses to rename
    dryRun,        \* Spec: the -dry-run flag
    autoYes,       \* Spec: the -y flag
    commonRes,     \* Spec: what findCommonPrefix returned at line 210
    usedMajority,  \* Spec: whether findMajorityPrefix was invoked (line 214)
    prefix,        \* Spec: the prefix that reached planning
    plans,         \* Spec: the rename plan ([]RenamePlan)
    prompted,      \* Spec: whether the confirmation prompt was printed
    stdin,         \* Spec: the bytes the operator typed at the prompt
    proceed,       \* Spec: the local variable proceed
    idx,           \* Spec: next plan entry of the rename loop (1-based)
    successCount,  \* Spec: the local variable successCount
    renameLog,     \* Spec: the os.Rename calls made so far, with their outcome
    retErr,        \* Spec: whether processDirectory returned a non-nil error
    cpc,           \* SpecFiles, SpecCmd: position in the test or in removePrefixCommand
    root,          \* SpecFiles, SpecCmd: the root directory (absDir)
    exclude,       \* SpecFiles, SpecCmd: excludeDirs, as a set of names
    extensions,    \* SpecFiles, SpecCmd: the extension list, as a set
    collected,     \* SpecFiles, SpecCmd: what collectFiles returned
    paths,         \* SpecFiles: the []string handed to groupFilesByDirectory
    groups,        \* SpecFiles, SpecCmd: what groupFilesByDirectory returned
    pending,       \* SpecCmd: the groups the range loop has not yet visited
    reported,      \* SpecCmd: the directories whose error was printed (line 416)
    unreadable,    \* the paths at which the file system reports an error to Walk
    collectErr     \* SpecFiles, SpecCmd: whether collectFiles returned a non-nil error

fnVars == <<strs, fnpc, cpResult, mpResult>>
pdVars == <<pc, files, dir, tree, tree0, refuse, dryRun, autoYes, commonRes, usedMajority,
            prefix, plans, prompted, stdin, proceed, idx, successCount, renameLog, retErr>>
cmdVars == <<cpc, root, exclude, extensions, collected, paths, groups, pending, reported,
             unreadable, collectErr>>
vars == <<strs, fnpc, cpResult, mpResult, pc, files, dir, tree, tree0, refuse, dryRun, autoYes,
          commonRes, usedMajority, prefix, plans, prompted, stdin, proceed, idx,
          successCount, renameLog, retErr, cpc, root, exclude, extensions, collected,
          paths, groups, pending, reported, unreadable, collectErr>>

(***************************************************************************)
(* Bounds of the model.                                                    *)
(***************************************************************************)
\* Largest slice handed to a pure function in SpecFn.
MaxStrs == 3
\* Largest directory group in Spec.
MaxFiles == 3
\* Largest number of files of a tree handed to collectFiles in SpecFiles.
MaxTreeFiles == 3
\* Longest list of paths handed to groupFilesByDirectory in SpecFiles.
MaxPaths == 3
\* Largest number of files of the tree removePrefixCommand runs on in SpecCmd.
MaxCmdFiles == 4

(***************************************************************************)
(* Program constants.                                                      *)
(***************************************************************************)
\* Shortest whitespace-trimmed prefix that is usable, and shortest candidate.
MinPrefixLen == 3
\* Absolute floor of the majority threshold.
MinThreshold == 2

(***************************************************************************)
(* Byte-string helpers (Go's strings package, on byte sequences).          *)
(***************************************************************************)
Take(s, n) == SubSeq(s, 1, n)
Drop(s, n) == SubSeq(s, n + 1, Len(s))

\* strings.HasPrefix(s, p)
HasPrefix(s, p) == Len(s) >= Len(p) /\ Take(s, Len(p)) = p

HasSuffix(s, p) == Len(s) >= Len(p) /\ Drop(s, Len(s) - Len(p)) = p

\* strings.TrimPrefix(s, p)
TrimPrefix(s, p) == IF HasPrefix(s, p) THEN Drop(s, Len(p)) ELSE s

\* The UTF-8 encodings of the runes unicode.IsSpace accepts: the ASCII ones
\* \t \n \v \f \r and space, then U+0085, U+00A0, U+1680, U+2000..U+200A,
\* U+2028, U+2029, U+202F, U+205F and U+3000.
SpaceRunes ==
    { <<b>> : b \in {9, 10, 11, 12, 13, 32} }
    \cup { <<194, 133>>, <<194, 160>>, <<225, 154, 128>> }
    \cup { <<226, 128, b>> : b \in 128..138 }
    \cup { <<226, 128, 168>>, <<226, 128, 169>>, <<226, 128, 175>>,
           <<226, 129, 159>>, <<227, 128, 128>> }

RECURSIVE TrimLeftSpace(_)
TrimLeftSpace(s) ==
    IF \E w \in SpaceRunes : HasPrefix(s, w)
    THEN TrimLeftSpace(Drop(s, Len(CHOOSE w \in SpaceRunes : HasPrefix(s, w))))
    ELSE s

RECURSIVE TrimRightSpace(_)
TrimRightSpace(s) ==
    IF \E w \in SpaceRunes : HasSuffix(s, w)
    THEN TrimRightSpace(Take(s, Len(s) - Len(CHOOSE w \in SpaceRunes : HasSuffix(s, w))))
    ELSE s

\* strings.TrimSpace(s): leading and trailing white-space runes removed.
TrimSpace(s) == TrimRightSpace(TrimLeftSpace(s))

\* strings.ToLower checks first whether every byte is below utf8.RuneSelf.
isASCII(s) == \A i \in 1..Len(s) : s[i] < 128

\* utf8.DecodeRuneInString(s[i:]): the rune that starts at position i and
\* its width. A byte that starts no well-formed encoding (a continuation
\* byte, C0, C1, F5..FF, a truncated or overlong sequence, a surrogate) is
\* utf8.RuneError, U+FFFD, of width 1.
DecodeRuneInString(s, i) ==
    LET b0 == s[i]
        RuneError == [r |-> 65533, w |-> 1]
        isCont(k) == i + k <= Len(s) /\ s[i + k] \in 128..191
        second(lo, hi) == i + 1 <= Len(s) /\ s[i + 1] \in lo..hi
    IN  IF b0 < 128 THEN [r |-> b0, w |-> 1]
        ELSE IF b0 \in 194..223
        THEN IF isCont(1)
             THEN [r |-> (b0 - 192) * 64 + (s[i + 1] - 128), w |-> 2]
             ELSE RuneError
        ELSE IF b0 \in 224..239
        THEN IF /\ second(IF b0 = 224 THEN 160 ELSE 128, IF b0 = 237 THEN 159 ELSE 191)
                /\ isCont(2)
             THEN [r |-> (b0 - 224) * 4096 + (s[i + 1] - 128) * 64 + (s[i + 2] - 128),
                   w |-> 3]
             ELSE RuneError
        ELSE IF b0 \in 240..244
        THEN IF /\ second(IF b0 = 240 THEN 144 ELSE 128, IF b0 = 244 THEN 143 ELSE 191)
                /\ isCont(2)
                /\ isCont(3)
             THEN [r |-> (b0 - 240) * 262144 + (s[i + 1] - 128) * 4096
                            + (s[i + 2] - 128) * 64 + (s[i + 3] - 128),
                   w |-> 4]
             ELSE RuneError
        ELSE RuneError

\* utf8.AppendRune: the UTF-8 encoding of rune r.
EncodeRune(r) ==
    IF r < 128 THEN <<r>>
    ELSE IF r < 2048 THEN <<192 + (r \div 64), 128 + (r % 64)>>
    ELSE IF r < 65536
    THEN <<224 + (r \div 4096), 128 + ((r \div 64) % 64), 128 + (r % 64)>>
    ELSE <<240 + (r \div 262144), 128 + ((r \div 4096) % 64), 128 + ((r \div 64) % 64),
           128 + (r % 64)>>

\* The lower-case mappings of unicode.CaseRanges above U+007F (Unicode 15.0):
\* <<lo, hi, stride, delta>> maps each rune lo, lo + stride, ..., hi to the
\* rune delta further on. A rune in none of them is its own lower case.
CaseRanges ==
    { <<192, 214, 1, 32>>, <<216, 222, 1, 32>>, <<256, 302, 2, 1>>, <<304, 304, 1, -199>>,
      <<306, 310, 2, 1>>, <<313, 327, 2, 1>>, <<330, 374, 2, 1>>, <<376, 376, 1, -121>>,
      <<377, 381, 2, 1>>, <<385, 385, 1, 210>>, <<386, 388, 2, 1>>, <<390, 390, 1, 206>>,
      <<391, 391, 1, 1>>, <<393, 394, 1, 205>>, <<395, 395, 1, 1>>, <<398, 398, 1, 79>>,
      <<399, 399, 1, 202>>, <<400, 400, 1, 203>>, <<401, 401, 1, 1>>, <<403, 403, 1, 205>>,
      <<404, 404, 1, 207>>, <<406, 406, 1, 211>>, <<407, 407, 1, 209>>, <<408, 408, 1, 1>>,
      <<412, 412, 1, 211>>, <<413, 413, 1, 213>>, <<415, 415, 1, 214>>, <<416, 420, 2, 1>>,
      <<422, 422, 1, 218>>, <<423, 423, 1, 1>>, <<425, 425, 1, 218>>, <<428, 428, 1, 1>>,
      <<430, 430, 1, 218>>, <<431, 431, 1, 1>>, <<433, 434, 1, 217>>, <<435, 437, 2, 1>>,
      <<439, 439, 1, 219>>, <<440, 440, 1, 1>>, <<444, 444, 1, 1>>, <<452, 452, 1, 2>>,
      <<453, 453, 1, 1>>, <<455, 455, 1, 2>>, <<456, 456, 1, 1>>, <<458, 458, 1, 2>>,
      <<459, 475, 2, 1>>, <<478, 494, 2, 1>>, <<497, 497, 1, 2>>, <<498, 500, 2, 1>>,
      <<502, 502, 1, -97>>, <<503, 503, 1, -56>>, <<504, 542, 2, 1>>,
      <<544, 544, 1, -130>>, <<546, 562, 2, 1>>, <<570, 570, 1, 10795>>,
      <<571, 571, 1, 1>>, <<573, 573, 1, -163>>, <<574, 574, 1, 10792>>,
      <<577, 577, 1, 1>>, <<579, 579, 1, -195>>, <<580, 580, 1, 69>>, <<581, 581, 1, 71>>,
      <<582, 590, 2, 1>>, <<880, 882, 2, 1>>, <<886, 886, 1, 1>>, <<895, 895, 1, 116>>,
      <<902, 902, 1, 38>>, <<904, 906, 1, 37>>, <<908, 908, 1, 64>>, <<910, 911, 1, 63>>,
      <<913, 929, 1, 32>>, <<931, 939, 1, 32>>, <<975, 975, 1, 8>>, <<984, 1006, 2, 1>>,
      <<1012, 1012, 1, -60>>, <<1015, 1015, 1, 1>>, <<1017, 1017, 1, -7>>,
      <<1018, 1018, 1, 1>>, <<1021, 1023, 1, -130>>, <<1024, 1039, 1, 80>>,
      <<1040, 1071, 1, 32>>, <<1120, 1152, 2, 1>>, <<1162, 1214, 2, 1>>,
      <<1216, 1216, 1, 15>>, <<1217, 1229, 2, 1>>, <<1232, 1326, 2, 1>>,
      <<1329, 1366, 1, 48>>, <<4256, 4293, 1, 7264>>, <<4295, 4295, 1, 7264>>,
      <<4301, 4301, 1, 7264>>, <<5024, 5103, 1, 38864>>, <<5104, 5109, 1, 8>>,
      <<7312, 7354, 1, -3008>>, <<7357, 7359, 1, -3008>>, <<7680, 7828, 2, 1>>,
      <<7838, 7838, 1, -7615>>, <<7840, 7934, 2, 1>>, <<7944, 7951, 1, -8>>,
      <<7960, 7965, 1, -8>>, <<7976, 7983, 1, -8>>, <<7992, 7999, 1, -8>>,
      <<8008, 8013, 1, -8>>, <<8025, 8031, 2, -8>>, <<8040, 8047, 1, -8>>,
      <<8072, 8079, 1, -8>>, <<8088, 8095, 1, -8>>, <<8104, 8111, 1, -8>>,
      <<8120, 8121, 1, -8>>, <<8122, 8123, 1, -74>>, <<8124, 8124, 1, -9>>,
      <<8136, 8139, 1, -86>>, <<8140, 8140, 1, -9>>, <<8152, 8153, 1, -8>>,
      <<8154, 8155, 1, -100>>, <<8168, 8169, 1, -8>>, <<8170, 8171, 1, -112>>,
      <<8172, 8172, 1, -7>>, <<8184, 8185, 1, -128>>, <<8186, 8187, 1, -126>>,
      <<8188, 8188, 1, -9>>, <<8486, 8486, 1, -7517>>, <<8490, 8490, 1, -8383>>,
      <<8491, 8491, 1, -8262>>, <<8498, 8498, 1, 28>>, <<8544, 8559, 1, 16>>,
      <<8579, 8579, 1, 1>>, <<9398, 9423, 1, 26>>, <<11264, 11311, 1, 48>>,
      <<11360, 11360, 1, 1>>, <<11362, 11362, 1, -10743>>, <<11363, 11363, 1, -3814>>,
      <<11364, 11364, 1, -10727>>, <<11367, 11371, 2, 1>>, <<11373, 11373, 1, -10780>>,
      <<11374, 11374, 1, -10749>>, <<11375, 11375, 1, -10783>>,
      <<11376, 11376, 1, -10782>>, <<11378, 11378, 1, 1>>, <<11381, 11381, 1, 1>>,
      <<11390, 11391, 1, -10815>>, <<11392, 11490, 2, 1>>, <<11499, 11501, 2, 1>>,
      <<11506, 11506, 1, 1>>, <<42560, 42604, 2, 1>>, <<42624, 42650, 2, 1>>,
      <<42786, 42798, 2, 1>>, <<42802, 42862, 2, 1>>, <<42873, 42875, 2, 1>>,
      <<42877, 42877, 1, -35332>>, <<42878, 42886, 2, 1>>, <<42891, 42891, 1, 1>>,
      <<42893, 42893, 1, -42280>>, <<42896, 42898, 2, 1>>, <<42902, 42920, 2, 1>>,
      <<42922, 42922, 1, -42308>>, <<42923, 42923, 1, -42319>>,
      <<42924, 42924, 1, -42315>>, <<42925, 42925, 1, -42305>>,
      <<42926, 42926, 1, -42308>>, <<42928, 42928, 1, -42258>>,
      <<42929, 42929, 1, -42282>>, <<42930, 42930, 1, -42261>>, <<42931, 42931, 1, 928>>,
      <<42932, 42946, 2, 1>>, <<42948, 42948, 1, -48>>, <<42949, 42949, 1, -42307>>,
      <<42950, 42950, 1, -35384>>, <<42951, 42953, 2, 1>>, <<42960, 42960, 1, 1>>,
      <<42966, 42968, 2, 1>>, <<42997, 42997, 1, 1>>, <<65313, 65338, 1, 32>>,
      <<66560, 66599, 1, 40>>, <<66736, 66771, 1, 40>>, <<66928, 66964, 2, 39>>,
      <<66929, 66937, 2, 39>>, <<66941, 66953, 2, 39>>, <<66957, 66961, 2, 39>>,
      <<66965, 66965, 1, 39>>, <<68736, 68786, 1, 64>>, <<71840, 71871, 1, 32>>,
      <<93760, 93791, 1, 32>>, <<125184, 125217, 1, 34>> }

\* unicode.ToLower(r)
unicodeToLower(r) ==
    IF r < 128 THEN (IF r \in 65..90 THEN r + 32 ELSE r)
    ELSE LET hits == { e \in CaseRanges : r >= e[1] /\ r <= e[2] /\ (r - e[1]) % e[3] = 0 }
         IN  IF hits = {} THEN r ELSE r + (CHOOSE e \in hits : TRUE)[4]

\* strings.Map(unicode.ToLower, s) from position i on: each rune is decoded,
\* mapped and encoded again, so that a byte of an ill-formed sequence comes
\* out as EF BF BD.
RECURSIVE MapToLower(_, _)
MapToLower(s, i) ==
    IF i > Len(s) THEN <<>>
    ELSE LET c == DecodeRuneInString(s, i)
         IN  EncodeRune(unicodeToLower(c.r)) \o MapToLower(s, i + c.w)

\* strings.ToLower(s): byte by byte when s is ASCII, rune by rune otherwise.
ToLower(s) ==
    IF isASCII(s)
    THEN [i \in 1..Len(s) |-> IF s[i] >= 65 /\ s[i] <= 90 THEN s[i] + 32 ELSE s[i]]
    ELSE MapToLower(s, 1)

(***************************************************************************)
(* findCommonPrefix (src/main.go 19-81).                                   *)
(***************************************************************************)
\* Lines 28-33: the length of the shortest string: the loop over strs[lo..hi]
\* with minLen = m on entry. The range is split in halves, the first half
\* before the second, which keeps the evaluation shallow on a long slice;
\* the test on left computes the first half's minimum before the second half
\* starts (a length is never negative, so the ELSE branch is never taken).
RECURSIVE minLenFrom(_, _, _, _)
minLenFrom(ss, lo, hi, m) ==
    IF lo > hi THEN m
    ELSE IF lo = hi THEN (IF Len(ss[lo]) < m THEN Len(ss[lo]) ELSE m)
    ELSE LET mid  == (lo + hi) \div 2
             left == minLenFrom(ss, lo, mid, m)
         IN  IF left >= 0 THEN minLenFrom(ss, mid + 1, hi, left) ELSE left

\* Lines 38-45: whether every string holds strs[0]'s byte at position i.
allMatch(ss, i) == \A k \in 1..Len(ss) : ss[k][i] = ss[1][i]

\* Lines 36-51: the byte-by-byte scan; i is the next position to compare,
\* the result is prefixLen.
RECURSIVE scanPrefix(_, _, _)
scanPrefix(ss, i, minLen) ==
    IF i > minLen THEN i - 1
    ELSE IF allMatch(ss, i) THEN scanPrefix(ss, i + 1, minLen)
    ELSE i - 1

\* Line 65: the one-byte separators.
IsSepByte(ch) == ch = 45 \/ ch = 95 \/ ch = 32 \/ ch = 41 \/ ch = 93

\* Line 70: the closing byte of E3 80 91 (the bracket U+3011).
IsBracketEnd(p, i) == i >= 3 /\ p[i - 2] = 227 /\ p[i - 1] = 128 /\ p[i] = 145

\* Lines 62-74 (and 116-128): the backward scan for the last separator; the
\* value of lastSep, which counts the bytes kept, or -1 when none is found.
RECURSIVE lastSepFrom(_, _)
lastSepFrom(p, i) ==
    IF i < 1 THEN -1
    ELSE IF IsSepByte(p[i]) THEN i
    ELSE IF IsBracketEnd(p, i) THEN i
    ELSE lastSepFrom(p, i - 1)

lastSep(p) == lastSepFrom(p, Len(p))

\* A variant of the trimming step that cuts before the separator instead of
\* right after it.
smartTrimExclusive(p) ==
    LET ls == lastSep(p)
    IN  IF ls > 0 /\ ls < Len(p) THEN Take(p, ls - 1) ELSE p

\* Lines 60-80: findCommonPrefix's trimming step on the raw prefix.
smartTrim(p) ==
    LET ls == lastSep(p)
    IN  IF ls > 0 /\ ls < Len(p) THEN Take(p, ls) ELSE p

\* A variant of findCommonPrefix without the test of lines 23-25: a single
\* string goes through the scan like any other slice.
findCommonPrefixNoSingleCheck(ss) ==
    IF Len(ss) = 0 THEN <<>>
    ELSE LET minLen    == minLenFrom(ss, 1, Len(ss), Len(ss[1]))
             prefixLen == scanPrefix(ss, 1, minLen)
         IN  IF prefixLen = 0 THEN <<>>
             ELSE smartTrim(Take(ss[1], prefixLen))

\* Lines 19-81.
findCommonPrefix(ss) ==
    IF Len(ss) = 0 THEN <<>>
    ELSE IF Len(ss) = 1 THEN <<>>
    ELSE LET minLen    == minLenFrom(ss, 1, Len(ss), Len(ss[1]))
             prefixLen == scanPrefix(ss, 1, minLen)
         IN  IF prefixLen = 0 THEN <<>>
             ELSE smartTrim(Take(ss[1], prefixLen))

(***************************************************************************)
(* findMajorityPrefix (src/main.go 85-142).                                *)
(***************************************************************************)
\* The largest power of two that is <= k (k >= 1): the binade of k.
RECURSIVE pow2Floor(_, _)
pow2Floor(k, e) == IF 2 * e <= k THEN pow2Floor(k, 2 * e) ELSE e

\* Line 91: int(float64(n) * 0.7) in IEEE-754 double arithmetic.  The double
\* nearest 0.7 is 0.7 - 0.4 * 2^-53, so the exact product is
\* 0.7n - 0.4n * 2^-53, rounded to the nearest double and then truncated.
\* When n is no multiple of 10 the fraction of 0.7n is at least 0.1 and the
\* truncation is floor(7n/10).  When n = 10m the product lies m * 2^-51 below
\* the integer 7m, whose neighbouring doubles are pow2Floor(7m) * 2^-52
\* apart: it rounds to 7m unless m * 2^-51 exceeds half that spacing, i.e.
\* unless 4m > pow2Floor(7m), and then the truncation is 7m - 1.
floatTimes07(n) ==
    IF n > 0 /\ n % 10 = 0
    THEN LET m == n \div 10
         IN  IF 4 * m > pow2Floor(7 * m, 1) THEN 7 * m - 1 ELSE 7 * m
    ELSE (7 * n) \div 10

\* Lines 91-94: the threshold, at least 2.
threshold(n) ==
    LET t == floatTimes07(n)
    IN  IF t < MinThreshold THEN MinThreshold ELSE t

\* Lines 106-111: how many strings start with the candidate.
matchCount(ss, p) == Cardinality({k \in 1..Len(ss) : HasPrefix(ss[k], p)})

\* A variant of line 114 in which an equal count replaces the best so far.
beatsBestOrTies(mc, th, bestCount) == mc >= th /\ mc >= bestCount

\* Line 114: whether a candidate with count mc replaces the best so far.
beatsBest(mc, th, bestCount) == mc >= th /\ mc > bestCount

\* Lines 115-136: the trimming of a candidate that passed line 114: whether
\* it is taken as the new best, and the prefix stored for it.
majorityTrim(p) ==
    LET ls == lastSep(p)
    IN  IF ls > 0 /\ ls < Len(p)
        THEN [taken |-> Len(TrimSpace(Take(p, ls))) >= MinPrefixLen, final |-> Take(p, ls)]
        ELSE [taken |-> FALSE, final |-> <<>>]

\* Lines 102-138: the inner loop over candidate lengths of sourceFile
\* strs[k], from len down to 3. best = [prefix, count] is (bestPrefix,
\* bestMatchCount).
RECURSIVE lengthLoop(_, _, _, _, _)
lengthLoop(ss, th, k, len, best) ==
    IF len < MinPrefixLen THEN best
    ELSE LET p  == Take(ss[k], len)
             mc == matchCount(ss, p)
             t  == majorityTrim(p)
         IN  IF beatsBest(mc, th, best.count) /\ t.taken
             THEN lengthLoop(ss, th, k, len - 1, [prefix |-> t.final, count |-> mc])
             ELSE lengthLoop(ss, th, k, len - 1, best)

\* Lines 100-139: the outer loop over the source files lo..hi, in input
\* order, threading (bestPrefix, bestMatchCount) through them. The range is
\* split in halves, the first half before the second: the files are visited
\* in the order of the loop, and the evaluation stays shallow for a slice of
\* 90 names. The test on left.count computes the first half's best before
\* the second half starts (a count is never negative, so the ELSE branch is
\* never taken).
RECURSIVE sourceLoop(_, _, _, _, _)
sourceLoop(ss, th, lo, hi, best) ==
    IF lo > hi THEN best
    ELSE IF lo = hi THEN lengthLoop(ss, th, lo, Len(ss[lo]), best)
    ELSE LET mid  == (lo + hi) \div 2
             left == sourceLoop(ss, th, lo, mid, best)
         IN  IF left.count >= 0 THEN sourceLoop(ss, th, mid + 1, hi, left) ELSE left

findMajorityPrefix(ss) ==
    IF Len(ss) < 2 THEN <<>>
    ELSE sourceLoop(ss, threshold(Len(ss)), 1, Len(ss), [prefix |-> <<>>, count |-> 0]).prefix

(***************************************************************************)
(* SpecFn: the pure functions applied to input slices.                     *)
(***************************************************************************)
\* Input filenames, as bytes ("-" 45, " " 32, "a" 97 ... ; E3 80 91 is
\* 227 128 145).
FnPool ==
    { <<97, 98, 45, 99, 45, 100, 120>>,    \* "ab-c-dx"
      <<97, 98, 45, 99, 45, 100, 121>>,    \* "ab-c-dy"
      <<97, 98, 45, 99, 122>>,             \* "ab-cz"
      <<97, 98, 45, 120>>,                 \* "ab-x"
      <<97, 98, 45>>,                      \* "ab-"
      <<97, 98, 99, 120>>,                 \* "abcx"
      <<97, 98, 99, 121>>,                 \* "abcy"
      <<97, 227, 128, 145, 98, 120>>,      \* "a]bx" with the bracket U+3011
      <<97, 227, 128, 145, 98, 121>>,      \* "a]by" with the bracket U+3011
      <<97, 128, 145, 98, 120>>,           \* "a" 80 91 "bx": no E3 before 80 91
      <<97, 128, 145, 98, 121>>,           \* "a" 80 91 "by"
      <<97, 32, 32, 120>>,                 \* "a  x"
      <<97, 32, 32, 121>>,                 \* "a  y"
      <<32, 113>> }                        \* " q"

RECURSIVE SeqsUpTo(_, _)
SeqsUpTo(S, n) ==
    IF n = 0 THEN { <<>> }
    ELSE LET shorter == SeqsUpTo(S, n - 1)
         IN  shorter \cup { Append(s, x) : s \in shorter, x \in S }

\* Large groups: n distinct names of which the first k are "ab-c" followed by
\* two digits and the others "zz" followed by two digits.
LargeName(stem, i) == stem \o << 48 + (i \div 10), 48 + (i % 10) >>

RECURSIVE LargeGroupRange(_, _, _)
LargeGroupRange(k, lo, hi) ==
    IF lo > hi THEN <<>>
    ELSE IF lo = hi
         THEN << IF lo <= k THEN LargeName(<<97, 98, 45, 99>>, lo)
                            ELSE LargeName(<<122, 122>>, lo) >>
         ELSE LargeGroupRange(k, lo, (lo + hi) \div 2)
                  \o LargeGroupRange(k, (lo + hi) \div 2 + 1, hi)

LargeGroup(n, k) == LargeGroupRange(k, 1, n)

LargeGroups ==
    { LargeGroup(10, 6), LargeGroup(10, 7), LargeGroup(90, 62), LargeGroup(90, 63) }

\* Groups whose common prefix ends in one of the separators '_', ')', ']'.
SeparatorGroups ==
    { << <<97, 98, 95, 99, 120>>, <<97, 98, 95, 99, 121>> >>,     \* "ab_cx", "ab_cy"
      << <<97, 98, 41, 99, 120>>, <<97, 98, 41, 99, 121>> >>,     \* "ab)cx", "ab)cy"
      << <<97, 98, 93, 99, 120>>, <<97, 98, 93, 99, 121>> >>,     \* "ab]cx", "ab]cy"
      << <<97, 98, 99, 95>>, <<97, 98, 99, 95, 120>> >> }         \* "abc_", "abc_x"

\* Groups of two pairs of names, each pair with a prefix of its own, in both
\* orders: "ab-c-dx", "ab-c-dy" and "zz-c-x", "zz-c-y".
CrossGroups ==
    LET abx == <<97, 98, 45, 99, 45, 100, 120>>
        aby == <<97, 98, 45, 99, 45, 100, 121>>
        zzx == <<122, 122, 45, 99, 45, 120>>
        zzy == <<122, 122, 45, 99, 45, 121>>
    IN  { <<abx, aby, zzx, zzy>>, <<zzx, zzy, abx, aby>>, <<zzx, abx, aby, zzy>> }

FnInputs == SeqsUpTo(FnPool, MaxStrs) \cup LargeGroups \cup SeparatorGroups \cup CrossGroups

NoStr == <<-1>>

InitFn ==
    /\ strs \in FnInputs
    /\ fnpc = "input"
    /\ cpResult = NoStr
    /\ mpResult = NoStr
    /\ pc = "off"
    /\ files = <<>>
    /\ dir = <<>>
    /\ tree = <<>>
    /\ tree0 = <<>>
    /\ refuse = {}
    /\ dryRun = FALSE
    /\ autoYes = FALSE
    /\ commonRes = NoStr
    /\ usedMajority = FALSE
    /\ prefix = NoStr
    /\ plans = <<>>
    /\ prompted = FALSE
    /\ stdin = <<>>
    /\ proceed = FALSE
    /\ idx = 0
    /\ successCount = 0
    /\ renameLog = <<>>
    /\ retErr = FALSE
    /\ cpc = "off"
    /\ root = <<>>
    /\ exclude = {}
    /\ extensions = {}
    /\ collected = <<>>
    /\ paths = <<>>
    /\ groups = <<>>
    /\ pending = {}
    /\ reported = {}
    /\ unreadable = {}
    /\ collectErr = FALSE

\* TestFindCommonPrefix: result := findCommonPrefix(tt.input)
CallFindCommonPrefix ==
    /\ fnpc = "input"
    /\ cpResult' = findCommonPrefix(strs)
    /\ fnpc' = "common"
    /\ UNCHANGED <<strs, mpResult>>
    /\ UNCHANGED pdVars
    /\ UNCHANGED cmdVars

\* TestFindMajorityPrefix: result := findMajorityPrefix(tt.input)
CallFindMajorityPrefix ==
    /\ fnpc = "input"
    /\ mpResult' = findMajorityPrefix(strs)
    /\ fnpc' = "majority"
    /\ UNCHANGED <<strs, cpResult>>
    /\ UNCHANGED pdVars
    /\ UNCHANGED cmdVars

NextFn == CallFindCommonPrefix \/ CallFindMajorityPrefix

SpecFn == InitFn /\ [][NextFn]_vars

(***************************************************************************)
(* processDirectory (src/main.go 198-322) on one directory group.          *)
(*                                                                         *)
(* Every path of the group is filepath.Join(dir, name) for the one dir of  *)
(* the group, so files holds the names, and a plan entry holds OldName and *)
(* NewName (old, new): its OldPath is pathOf(dir, old), its NewPath is     *)
(* joinPath(dir, new).                                                     *)
(***************************************************************************)
\* filepath.Dir and filepath.Base of a clean absolute path.
Dir(p) == Take(p, Len(p) - 1)
Base(p) == p[Len(p)]

\* The path Walk builds for the entry name of directory d.
pathOf(d, name) == Append(d, name)

\* A variant of line 259 that joins the new name to the parent of dir.
joinPathInParent(d, name) == Append(Dir(d), name)

\* Line 259: filepath.Join(dir, newName). Join cleans its result: the name
\* "." gives dir itself, ".." gives dir's parent ("/" is its own parent).
joinPath(d, name) ==
    IF name = <<46>> THEN d
    ELSE IF name = <<46, 46>> THEN (IF Len(d) = 0 THEN d ELSE Dir(d))
    ELSE Append(d, name)

\* Whether path p is a directory of the file system t: an ancestor of one
\* of its files.
IsDirectory(t, p) ==
    \E q \in DOMAIN t : Len(q) > Len(p) /\ Take(q, Len(p)) = p

\* The files stored directly in directory d: name -> identity.
listing(t, d) ==
    [n \in { Base(q) : q \in { q \in DOMAIN t : Len(q) >= 1 /\ Dir(q) = d } } |-> t[pathOf(d, n)]]

\* The group's directory as it is now.
disk == listing(tree, dir)

\* A variant of line 199 that lets a single file through.
tooFewFilesNone(fs) == Len(fs) < 1

\* Line 199: a group of fewer than two files is left alone.
tooFewFiles(fs) == Len(fs) < 2

\* Byte-wise string order (Go's < on strings).
ByteLess(a, b) ==
    \E i \in 1..Len(b) :
        /\ i <= Len(a) + 1
        /\ Take(a, i - 1) = Take(b, i - 1)
        /\ (i = Len(a) + 1 \/ a[i] < b[i])

\* filepath.Walk visits a directory's entries in lexical order, and
\* groupFilesByDirectory appends in that order: a group is sorted by name.
RECURSIVE walkOrder(_)
walkOrder(S) ==
    IF S = {} THEN <<>>
    ELSE LET first == CHOOSE x \in S : \A y \in S \ {x} : ByteLess(x, y)
         IN  <<first>> \o walkOrder(S \ {first})

\* A variant of lines 213 and 215 that lets a prefix of two bytes through.
tooShortBelowTwo(p) == p = <<>> \/ Len(TrimSpace(p)) < MinPrefixLen - 1

\* Lines 213 and 215: the test that rejects a prefix.
tooShort(p) == p = <<>> \/ Len(TrimSpace(p)) < MinPrefixLen

\* Lines 209-218: prefix detection. ok is FALSE when the function returns
\* at line 216.
detectPrefix(names) ==
    LET common == findCommonPrefix(names)
    IN  IF tooShort(common)
        THEN LET maj == findMajorityPrefix(names)
             IN  [common |-> common, usedMajority |-> TRUE, prefix |-> maj,
                  ok |-> ~tooShort(maj)]
        ELSE [common |-> common, usedMajority |-> FALSE, prefix |-> common, ok |-> TRUE]

\* A variant of lines 250-251 that strips one byte less than the prefix.
newNameOfShortStrip(oldName, pfx) ==
    TrimSpace(IF HasPrefix(oldName, pfx) /\ Len(pfx) > 0
              THEN Drop(oldName, Len(pfx) - 1) ELSE oldName)

\* Lines 250-251: the new name of a file.
newNameOf(oldName, pfx) == TrimSpace(TrimPrefix(oldName, pfx))

\* A variant of lines 246-267 that leaves the loop at the first file whose
\* new name is empty (break in place of continue).
RECURSIVE buildPlanBreak(_, _, _)
buildPlanBreak(fs, pfx, k) ==
    IF k > Len(fs) THEN <<>>
    ELSE LET oldName == fs[k]
             newName == newNameOf(oldName, pfx)
         IN  IF newName = <<>> THEN <<>>
             ELSE IF oldName # newName
                  THEN <<[old |-> oldName, new |-> newName]>> \o buildPlanBreak(fs, pfx, k + 1)
                  ELSE buildPlanBreak(fs, pfx, k + 1)

\* Lines 246-267: the rename plan, from file k on.
RECURSIVE buildPlan(_, _, _)
buildPlan(fs, pfx, k) ==
    IF k > Len(fs) THEN <<>>
    ELSE LET oldName == fs[k]
             newName == newNameOf(oldName, pfx)
         IN  IF newName = <<>> THEN buildPlan(fs, pfx, k + 1)
             ELSE IF oldName # newName
                  THEN <<[old |-> oldName, new |-> newName]>> \o buildPlan(fs, pfx, k + 1)
                  ELSE buildPlan(fs, pfx, k + 1)

\* A variant of lines 286-307 that looks at -y before -dry-run.
afterPreviewYesFirst(dry, auto) ==
    IF auto THEN "rename" ELSE IF dry THEN "done" ELSE "prompt"

\* Lines 286-307: where control goes once the preview is printed.
afterPreview(dry, auto) ==
    IF dry THEN "done" ELSE IF auto THEN "rename" ELSE "prompt"

\* Line 296: reader.ReadString('\n') on the bytes typed: the line up to and
\* including the first newline, or everything and io.EOF when there is none.
readString(input) ==
    IF \E i \in 1..Len(input) : input[i] = 10
    THEN [line |-> Take(input, CHOOSE i \in 1..Len(input) :
                                  input[i] = 10 /\ \A j \in 1..(i - 1) : input[j] # 10),
          err |-> FALSE]
    ELSE [line |-> input, err |-> TRUE]

\* A variant of lines 300-301 that accepts every response starting with y.
isYesByFirstLetter(response) ==
    LET r == ToLower(TrimSpace(response))
    IN  Len(r) >= 1 /\ r[1] = 121

\* Lines 300-301: whether the response confirms.
isYes(response) ==
    LET r == ToLower(TrimSpace(response))
    IN  r = <<121>> \/ r = <<121, 101, 115>>

\* Line 312: os.Rename(oldPath, newPath) on the file system d. It fails when
\* the system refuses it (fault), the source does not exist or the
\* destination is a directory; otherwise the file moves to the new path,
\* replacing whatever file was stored there.
osRename(d, old, new, fault) ==
    IF fault \/ old \notin DOMAIN d \/ IsDirectory(d, new) THEN [ok |-> FALSE, disk |-> d]
    ELSE [ok |-> TRUE,
          disk |-> [n \in (DOMAIN d \ {old}) \cup {new} |-> IF n = new THEN d[old] ELSE d[n]]]

\* Filenames of the directory groups, as bytes.
NamePool ==
    { <<97, 98, 45, 120>>,                 \* "ab-x"
      <<97, 98, 45, 121>>,                 \* "ab-y"
      <<97, 98, 45, 32, 120>>,             \* "ab- x"
      <<97, 98, 45>>,                      \* "ab-"
      <<97, 98, 45, 97, 98, 45, 120>>,     \* "ab-ab-x"
      <<97, 98, 45, 97, 98, 99, 120>>,     \* "ab-abcx"
      <<97, 98, 45, 97, 98, 99, 121>>,     \* "ab-abcy"
      <<97, 98, 45, 99, 120>>,             \* "ab-cx"
      <<97, 98, 45, 99, 121>>,             \* "ab-cy"
      <<32, 113>>,                         \* " q"
      <<113, 32>>,                         \* "q "
      <<120>>,                             \* "x"
      <<97, 227, 128, 145, 120>>,          \* "a]x" with the bracket U+3011
      <<97, 227, 128, 145, 121>>,          \* "a]y" with the bracket U+3011
      <<97, 45, 120>>,                     \* "a-x"
      <<97, 45, 121>>,                     \* "a-y"
      <<97, 32, 32, 120>>,                 \* "a  x"
      <<97, 32, 32, 121>>,                 \* "a  y"
      <<97, 98, 45, 46, 46>> }             \* "ab-.."

\* Groups whose names, once the common prefix is stripped, carry a prefix of
\* their own: "ab-q", "ab-zz-c1", "ab-zz-c2".
StackedGroups ==
    { { <<97, 98, 45, 113>>,
        <<97, 98, 45, 122, 122, 45, 99, 49>>,
        <<97, 98, 45, 122, 122, 45, 99, 50>> } }

RECURSIVE SetsUpTo(_, _)
SetsUpTo(S, n) ==
    IF n = 0 THEN { {} }
    ELSE LET smaller == SetsUpTo(S, n - 1)
         IN  smaller \cup { T \cup {x} : T \in smaller, x \in S }

\* What the operator may type at the prompt.
StdinInputs ==
    { <<121, 10>>,                         \* "y\n"
      <<32, 89, 69, 83, 32, 13, 10>>,      \* " YES \r\n"
      <<10>>,                              \* "\n"
      <<110, 10>>,                         \* "n\n"
      <<121, 101, 10>>,                    \* "ye\n"
      <<121, 101, 115>>,                   \* "yes", then end of input
      <<>> }                               \* end of input

\* The directory of the group in Spec: "/r".
GroupDir == << <<114>> >>

\* What the file system may refuse to rename: nothing, or one of the paths.
RefusedSets(P) == { {} } \cup { {q} : q \in P }

Init ==
    /\ \E S \in (SetsUpTo(NamePool, MaxFiles) \ { {} }) \cup StackedGroups :
          /\ files = walkOrder(S)
          /\ tree = [q \in { pathOf(GroupDir, n) : n \in S } |->
                         CHOOSE k \in 1..Cardinality(S) : walkOrder(S)[k] = Base(q)]
          /\ refuse \in RefusedSets({ pathOf(GroupDir, n) : n \in S })
    /\ tree0 = tree
    /\ dir = GroupDir
    /\ pc = "start"
    /\ dryRun \in BOOLEAN
    /\ autoYes \in BOOLEAN
    /\ commonRes = NoStr
    /\ usedMajority = FALSE
    /\ prefix = NoStr
    /\ plans = <<>>
    /\ prompted = FALSE
    /\ stdin = <<>>
    /\ proceed = FALSE
    /\ idx = 0
    /\ successCount = 0
    /\ renameLog = <<>>
    /\ retErr = FALSE
    /\ strs = <<>>
    /\ fnpc = "off"
    /\ cpResult = NoStr
    /\ mpResult = NoStr
    /\ cpc = "off"
    /\ root = <<>>
    /\ exclude = {}
    /\ extensions = {}
    /\ collected = <<>>
    /\ paths = <<>>
    /\ groups = <<>>
    /\ pending = {}
    /\ reported = {}
    /\ unreadable = {}
    /\ collectErr = FALSE

\* processDirectory(dir, files, dryRun, autoYes) from its entry to the first
\* point where it returns, blocks on the operator or starts renaming. The
\* arguments are the state it starts in.
ProcessDirectory ==
    /\ pc = "start"
    /\ IF tooFewFiles(files)
       THEN /\ pc' = "done"
            /\ UNCHANGED <<commonRes, usedMajority, prefix, plans, prompted, proceed, idx>>
       ELSE LET d == detectPrefix(files)
            IN  /\ commonRes' = d.common
                /\ usedMajority' = d.usedMajority
                /\ IF ~d.ok
                   THEN /\ pc' = "done"
                        /\ UNCHANGED <<prefix, plans, prompted, proceed, idx>>
                   ELSE LET pl == buildPlan(files, d.prefix, 1)
                            to == afterPreview(dryRun, autoYes)
                        IN  /\ prefix' = d.prefix
                            /\ plans' = pl
                            /\ pc' = IF pl = <<>> THEN "done" ELSE to
                            /\ prompted' = (pl # <<>> /\ to = "prompt")
                            /\ proceed' = (pl # <<>> /\ to = "rename")
                            /\ idx' = IF pl # <<>> /\ to = "rename" THEN 1 ELSE idx
    /\ UNCHANGED <<files, dir, tree, tree0, refuse, dryRun, autoYes, stdin, successCount,
                   renameLog, retErr>>
    /\ UNCHANGED fnVars
    /\ UNCHANGED cmdVars

\* Lines 294-307: the operator's line arrives.
ReadResponse ==
    /\ pc = "prompt"
    /\ \E input \in StdinInputs :
          LET r == readString(input)
          IN  /\ stdin' = input
              /\ IF r.err
                 THEN /\ retErr' = TRUE
                      /\ pc' = "done"
                      /\ UNCHANGED <<proceed, idx>>
                 ELSE /\ proceed' = isYes(r.line)
                      /\ pc' = IF isYes(r.line) THEN "rename" ELSE "done"
                      /\ idx' = IF isYes(r.line) THEN 1 ELSE idx
                      /\ UNCHANGED retErr
    /\ UNCHANGED <<files, dir, tree, tree0, refuse, dryRun, autoYes, commonRes, usedMajority,
                   prefix, plans, prompted, successCount, renameLog>>
    /\ UNCHANGED fnVars
    /\ UNCHANGED cmdVars

\* A variant of lines 311-318 that leaves the loop at the first failed
\* rename.
RenameStopAtFailure ==
    /\ pc = "rename"
    /\ idx <= Len(plans)
    /\ LET oldPath == pathOf(dir, plans[idx].old)
           r == osRename(tree, oldPath, joinPath(dir, plans[idx].new), oldPath \in refuse)
       IN  /\ tree' = r.disk
           /\ successCount' = IF r.ok THEN successCount + 1 ELSE successCount
           /\ renameLog' = Append(renameLog,
                                  [old |-> plans[idx].old, new |-> plans[idx].new, ok |-> r.ok])
           /\ idx' = IF r.ok THEN idx + 1 ELSE Len(plans) + 1
    /\ UNCHANGED <<pc, files, dir, tree0, refuse, dryRun, autoYes, commonRes, usedMajority, prefix,
                   plans, prompted, stdin, proceed, retErr>>
    /\ UNCHANGED fnVars
    /\ UNCHANGED cmdVars

\* Lines 311-318: one iteration of the rename loop. The file system refuses
\* the rename of the paths in refuse.
Rename ==
    /\ pc = "rename"
    /\ idx <= Len(plans)
    /\ LET oldPath == pathOf(dir, plans[idx].old)
           r == osRename(tree, oldPath, joinPath(dir, plans[idx].new), oldPath \in refuse)
       IN  /\ tree' = r.disk
           /\ successCount' = IF r.ok THEN successCount + 1 ELSE successCount
           /\ renameLog' = Append(renameLog,
                                  [old |-> plans[idx].old, new |-> plans[idx].new, ok |-> r.ok])
    /\ idx' = idx + 1
    /\ UNCHANGED <<pc, files, dir, tree0, refuse, dryRun, autoYes, commonRes, usedMajority, prefix,
                   plans, prompted, stdin, proceed, retErr>>
    /\ UNCHANGED fnVars
    /\ UNCHANGED cmdVars

\* Lines 320-321: the loop is over; the tally is printed and nil returned.
Finish ==
    /\ pc = "rename"
    /\ idx > Len(plans)
    /\ pc' = "done"
    /\ UNCHANGED <<files, dir, tree, tree0, refuse, dryRun, autoYes, commonRes, usedMajority,
                   prefix, plans, prompted, stdin, proceed, idx, successCount, renameLog,
                   retErr>>
    /\ UNCHANGED fnVars
    /\ UNCHANGED cmdVars

Next == ProcessDirectory \/ ReadResponse \/ Rename \/ Finish

Spec == Init /\ [][Next]_vars

(***************************************************************************)
(* collectFiles (src/main.go 145-185) and groupFilesByDirectory (188-195). *)
(***************************************************************************)
\* Lines 151-153: an extension of the list, with its leading dot.
withDot(ext) == IF HasPrefix(ext, <<46>>) THEN ext ELSE <<46>> \o ext

\* Lines 149-155: extMap, as the set of its keys.
extMapOf(exts) == { ToLower(withDot(e)) : e \in exts }

\* filepath.Ext: the suffix of the last element that starts at its last dot,
\* "" when it has no dot.
Ext(p) ==
    LET name == Base(p)
        dots == { i \in 1..Len(name) : name[i] = 46 }
    IN  IF dots = {} THEN <<>>
        ELSE Drop(name, (CHOOSE i \in dots : \A j \in dots : j <= i) - 1)

\* A variant of lines 174-179 that compares the extension as it is spelled.
extAllowedCaseSensitive(p, extMap) == extMap # {} => Ext(p) \in extMap

\* Lines 174-179: whether the file passes the extension filter.
extAllowed(p, extMap) == extMap # {} => ToLower(Ext(p)) \in extMap

\* Lines 164-169: whether the directory is skipped.
skipDir(p, excl) == Base(p) \in excl

\* The names of the entries of directory d, as Walk reads them.
entryNames(t, d) ==
    { q[Len(d) + 1] : q \in { q \in DOMAIN t : Len(q) > Len(d) /\ Take(q, Len(d)) = d } }

\* filepath.Walk (lines 157-183) from directory d's entry names[k] on: the
\* entries in lexical order, until one of them ends the walk with an error.
\* walk is Walk's step on one path, the callback included. The file system
\* reports an error at a path of bad (Lstat fails on it, or it is a
\* directory that cannot be read): the callback returns that error before
\* it looks at the path (lines 158-160), which ends the walk. A regular file
\* is handed to the extension filter, the root as well when it is one; a
\* directory is skipped (SkipDir) or walked. The result is the files
\* appended and whether the walk ended with an error.
RECURSIVE walkEntries(_, _, _, _, _, _, _)
RECURSIVE walk(_, _, _, _, _)
walkEntries(t, d, names, k, excl, extMap, bad) ==
    IF k > Len(names) THEN [files |-> <<>>, err |-> FALSE]
    ELSE LET here == walk(t, pathOf(d, names[k]), excl, extMap, bad)
         IN  IF here.err THEN here
             ELSE LET rest == walkEntries(t, d, names, k + 1, excl, extMap, bad)
                  IN  [files |-> here.files \o rest.files, err |-> rest.err]

walk(t, p, excl, extMap, bad) ==
    IF p \in bad THEN [files |-> <<>>, err |-> TRUE]
    ELSE IF p \in DOMAIN t
    THEN [files |-> IF extAllowed(p, extMap) THEN <<p>> ELSE <<>>, err |-> FALSE]
    ELSE IF skipDir(p, excl) THEN [files |-> <<>>, err |-> FALSE]
    ELSE walkEntries(t, p, walkOrder(entryNames(t, p)), 1, excl, extMap, bad)

\* Lines 145-185: collectFiles(root, excludeDirs, extensions) on the file
\* system t with the failing paths bad: the files appended, and whether the
\* error returned is non-nil. Walk calls the function on the root first.
collectFiles(t, rt, excl, exts, bad) == walk(t, rt, excl, extMapOf(exts), bad)

\* A variant of lines 190-193 that puts each file in front of its group.
RECURSIVE groupFrom(_, _, _)
RECURSIVE groupFromPrepend(_, _, _)
groupFromPrepend(fs, k, g) ==
    IF k > Len(fs) THEN g
    ELSE LET d == Dir(fs[k])
         IN  groupFromPrepend(fs, k + 1,
                 [e \in DOMAIN g \cup {d} |->
                     IF e = d THEN (IF d \in DOMAIN g THEN <<fs[k]>> \o g[d] ELSE <<fs[k]>>)
                     ELSE g[e]])

groupFilesByDirectoryPrepend(fs) == groupFromPrepend(fs, 1, <<>>)

\* Lines 190-193: the loop from file k on, groups being the map g.
groupFrom(fs, k, g) ==
    IF k > Len(fs) THEN g
    ELSE LET d == Dir(fs[k])
         IN  groupFrom(fs, k + 1,
                 [e \in DOMAIN g \cup {d} |->
                     IF e = d THEN (IF d \in DOMAIN g THEN Append(g[d], fs[k]) ELSE <<fs[k]>>)
                     ELSE g[e]])

\* Lines 188-195: the map directory -> files, as a function.
groupFilesByDirectory(fs) == groupFrom(fs, 1, <<>>)

(***************************************************************************)
(* SpecFiles: collectFiles applied to file trees, groupFilesByDirectory    *)
(* applied to lists of paths.                                              *)
(***************************************************************************)
\* Names of the trees, as bytes.
NameR == <<114>>                             \* "r"
NameD == <<100>>                             \* "d"
NameS == <<115>>                             \* "s"
NameEaDir == <<64, 101, 97, 68, 105, 114>>   \* "@eaDir"
NameAMp3 == <<97, 46, 109, 112, 51>>         \* "a.mp3"
NameBMP3 == <<98, 46, 77, 80, 51>>           \* "b.MP3"
NameCTxt == <<99, 46, 116, 120, 116>>        \* "c.txt"
NameN == <<110>>                             \* "n"
NameEUpper == <<101, 46, 195, 137>>          \* "e.\u00C9", its extension a capital E acute

\* The files a tree may hold, relative to its root.
RelPool ==
    { <<NameAMp3>>,
      <<NameBMP3>>,
      <<NameCTxt>>,
      <<NameN>>,
      <<NameEaDir, NameAMp3>>,
      <<NameD, NameAMp3>>,
      <<NameD, NameEUpper>>,
      <<NameD, NameEaDir, NameAMp3>>,
      <<NameD, NameEaDir, NameS, NameAMp3>>,
      <<NameS, NameEaDir>> }                 \* a file named "@eaDir"

\* The trees of at most n files of pool below the root rt: path -> identity,
\* a file being identified by the path it has at the start.
TreesBelow(rt, pool, n) ==
    { [q \in { rt \o rel : rel \in R } |-> q]
        : R \in { R \in SUBSET pool : Cardinality(R) <= n } }

RootPool == { <<NameR>>, <<NameR, NameEaDir>> }

\* The paths Walk can meet in tree t from root rt: the root, the files below
\* it and their directories.
PathsOf(t, rt) ==
    {rt} \cup UNION { { Take(q, k) : k \in Len(rt)..Len(q) } : q \in DOMAIN t }

ExcludePool == { {}, {NameEaDir}, {NameEaDir, NameD} }

ExtensionsPool ==
    { {},
      { <<109, 112, 51>> },                          \* mp3
      { <<46, 77, 80, 51>>, <<116, 120, 116>>,       \* .MP3, txt and
        <<195, 169>> },                              \* a small e acute
      { <<>> } }                                     \* the empty extension

\* The paths handed to groupFilesByDirectory.
PathPool ==
    { <<NameR, NameAMp3>>,
      <<NameR, NameD, NameAMp3>>,
      <<NameR, NameD, NameBMP3>>,
      <<NameR, NameD, NameD, NameAMp3>>,
      <<NameR, NameS, NameAMp3>> }

\* The variables of the other specifications, at rest.
FnOff == strs = <<>> /\ fnpc = "off" /\ cpResult = NoStr /\ mpResult = NoStr

LocalsReset ==
    /\ commonRes = NoStr
    /\ usedMajority = FALSE
    /\ prefix = NoStr
    /\ plans = <<>>
    /\ prompted = FALSE
    /\ stdin = <<>>
    /\ proceed = FALSE
    /\ idx = 0
    /\ successCount = 0
    /\ renameLog = <<>>
    /\ retErr = FALSE

\* The inputs of collectFiles (a root, a tree, excludeDirs, extensions), as
\* in TestCollectFiles, and of TestGroupFilesByDirectory (a list of paths).
\* The root is a directory, of which at most one path fails, or it is a
\* regular file of the tree.
InitFiles ==
    /\ \/ /\ root \in RootPool
          /\ tree \in TreesBelow(root, RelPool, MaxTreeFiles)
          /\ unreadable \in RefusedSets(PathsOf(tree, root))
          /\ exclude \in ExcludePool
          /\ extensions \in ExtensionsPool
          /\ paths = <<>>
       \/ /\ tree \in TreesBelow(<<NameR>>, RelPool, MaxTreeFiles)
          /\ root \in DOMAIN tree
          /\ unreadable = {}
          /\ exclude \in ExcludePool
          /\ extensions \in ExtensionsPool
          /\ paths = <<>>
       \/ /\ root = <<NameR>>
          /\ tree = <<>>
          /\ unreadable = {}
          /\ exclude = {}
          /\ extensions = {}
          /\ paths \in SeqsUpTo(PathPool, MaxPaths)
    /\ tree0 = tree
    /\ cpc = "input"
    /\ collected = <<>>
    /\ groups = <<>>
    /\ pending = {}
    /\ reported = {}
    /\ collectErr = FALSE
    /\ refuse = {}
    /\ pc = "off"
    /\ files = <<>>
    /\ dir = <<>>
    /\ dryRun = FALSE
    /\ autoYes = FALSE
    /\ LocalsReset
    /\ FnOff

\* TestCollectFiles: result, err := collectFiles(tmpDir, tt.excludeDirs, tt.extensions)
CallCollectFiles ==
    /\ cpc = "input"
    /\ LET r == collectFiles(tree, root, exclude, extensions, unreadable)
       IN  /\ collected' = r.files
           /\ collectErr' = r.err
    /\ cpc' = "collected"
    /\ UNCHANGED <<root, exclude, extensions, paths, groups, pending, reported, unreadable>>
    /\ UNCHANGED pdVars
    /\ UNCHANGED fnVars

\* TestGroupFilesByDirectory: result := groupFilesByDirectory(files)
CallGroupFilesByDirectory ==
    /\ cpc = "input"
    /\ groups' = groupFilesByDirectory(paths)
    /\ cpc' = "grouped"
    /\ UNCHANGED <<root, exclude, extensions, collected, paths, pending, reported,
                   unreadable, collectErr>>
    /\ UNCHANGED pdVars
    /\ UNCHANGED fnVars

NextFiles == CallCollectFiles \/ CallGroupFilesByDirectory

SpecFiles == InitFiles /\ [][NextFiles]_vars

(***************************************************************************)
(* SpecCmd: removePrefixCommand (src/main.go 325-421) on a file tree, from *)
(* the collection of the files (line 395) on.                              *)
(***************************************************************************)
NameAbX == <<97, 98, 45, 120>>               \* "ab-x"
NameAbY == <<97, 98, 45, 121>>               \* "ab-y"
NameAbDotDot == <<97, 98, 45, 46, 46>>       \* "ab-.."

\* The files the tree of SpecCmd may hold, relative to its root.
CmdRelPool ==
    { <<NameAbX>>,
      <<NameAbY>>,
      <<NameD, NameAbX>>,
      <<NameD, NameAbY>>,
      <<NameD, NameAbDotDot>>,
      <<NameEaDir, NameAbX>>,
      <<NameEaDir, NameAbY>> }

\* The directories of these trees.
CmdDirs == { <<NameR>>, <<NameR, NameD>>, <<NameR, NameEaDir>> }

\* The values of -exclude-dirs: its default "@eaDir", and "".
CmdExcludePool == { {NameEaDir}, {} }

\* removePrefixCommand after its flags are parsed and the directory is
\* checked (line 368): -dir is "/r", -exts has its default "". At most one
\* path of the tree fails: when Walk comes to it, or when it is renamed.
InitCmd ==
    /\ root = <<NameR>>
    /\ tree \in TreesBelow(root, CmdRelPool, MaxCmdFiles)
    /\ tree0 = tree
    /\ unreadable \in RefusedSets(PathsOf(tree, root))
    /\ refuse \in IF unreadable = {} THEN RefusedSets(DOMAIN tree) ELSE { {} }
    /\ exclude \in CmdExcludePool
    /\ extensions = {}
    /\ dryRun \in BOOLEAN
    /\ autoYes \in BOOLEAN
    /\ cpc = "start"
    /\ collected = <<>>
    /\ paths = <<>>
    /\ groups = <<>>
    /\ pending = {}
    /\ reported = {}
    /\ collectErr = FALSE
    /\ pc = "idle"
    /\ files = <<>>
    /\ dir = <<>>
    /\ LocalsReset
    /\ FnOff

\* Lines 395-410: the files are collected and grouped; when collectFiles
\* returns an error the command exits at line 398, and with no file it
\* returns at line 403.
CollectAndGroup ==
    /\ cpc = "start"
    /\ LET r == collectFiles(tree, root, exclude, extensions, unreadable)
           fs == r.files
       IN  /\ collected' = fs
           /\ collectErr' = r.err
           /\ IF r.err
              THEN /\ cpc' = "exit"
                   /\ UNCHANGED <<paths, groups, pending>>
              ELSE IF Len(fs) = 0
              THEN /\ cpc' = "nofiles"
                   /\ UNCHANGED <<paths, groups, pending>>
              ELSE /\ paths' = fs
                   /\ groups' = groupFilesByDirectory(fs)
                   /\ pending' = DOMAIN groupFilesByDirectory(fs)
                   /\ cpc' = "loop"
    /\ UNCHANGED <<root, exclude, extensions, reported, unreadable>>
    /\ UNCHANGED pdVars
    /\ UNCHANGED fnVars

\* Lines 413-414 and 204-207: the range loop takes a group it has not yet
\* visited, in the unspecified order of a Go map, and calls
\* processDirectory, whose locals start afresh.
EnterGroup ==
    /\ cpc = "loop"
    /\ pc = "idle"
    /\ \E d \in pending :
          /\ dir' = d
          /\ files' = [i \in 1..Len(groups[d]) |-> Base(groups[d][i])]
          /\ pending' = pending \ {d}
    /\ pc' = "start"
    /\ commonRes' = NoStr
    /\ usedMajority' = FALSE
    /\ prefix' = NoStr
    /\ plans' = <<>>
    /\ prompted' = FALSE
    /\ stdin' = <<>>
    /\ proceed' = FALSE
    /\ idx' = 0
    /\ successCount' = 0
    /\ renameLog' = <<>>
    /\ retErr' = FALSE
    /\ UNCHANGED <<tree, tree0, refuse, dryRun, autoYes>>
    /\ UNCHANGED <<cpc, root, exclude, extensions, collected, paths, groups, reported,
                   unreadable, collectErr>>
    /\ UNCHANGED fnVars

\* A variant of lines 415-417 that ends the command at the first error.
LeaveGroupExitOnError ==
    /\ cpc = "loop"
    /\ pc = "done"
    /\ pc' = "idle"
    /\ reported' = IF retErr THEN reported \cup {dir} ELSE reported
    /\ cpc' = IF retErr THEN "exit" ELSE cpc
    /\ UNCHANGED <<files, dir, tree, tree0, refuse, dryRun, autoYes, commonRes, usedMajority,
                   prefix, plans, prompted, stdin, proceed, idx, successCount, renameLog,
                   retErr>>
    /\ UNCHANGED <<root, exclude, extensions, collected, paths, groups, pending,
                   unreadable, collectErr>>
    /\ UNCHANGED fnVars

\* Lines 415-417: processDirectory has returned; its error, if any, is
\* printed and the loop goes on.
LeaveGroup ==
    /\ cpc = "loop"
    /\ pc = "done"
    /\ pc' = "idle"
    /\ reported' = IF retErr THEN reported \cup {dir} ELSE reported
    /\ UNCHANGED <<files, dir, tree, tree0, refuse, dryRun, autoYes, commonRes, usedMajority,
                   prefix, plans, prompted, stdin, proceed, idx, successCount, renameLog,
                   retErr>>
    /\ UNCHANGED <<cpc, root, exclude, extensions, collected, paths, groups, pending,
                   unreadable, collectErr>>
    /\ UNCHANGED fnVars

\* Line 420: every group was visited; "Processing complete!" is printed.
Complete ==
    /\ cpc = "loop"
    /\ pc = "idle"
    /\ pending = {}
    /\ cpc' = "complete"
    /\ UNCHANGED <<root, exclude, extensions, collected, paths, groups, pending, reported,
                   unreadable, collectErr>>
    /\ UNCHANGED pdVars
    /\ UNCHANGED fnVars

NextCmd ==
    \/ CollectAndGroup
    \/ EnterGroup
    \/ ProcessDirectory
    \/ ReadResponse
    \/ Rename
    \/ Finish
    \/ LeaveGroup
    \/ Complete

SpecCmd == InitCmd /\ [][NextCmd]_vars

\* The steps of CollectAndGroup and of ProcessDirectory, told by the control
\* state: each is possible exactly when cpc, or pc, is "start", and no other
\* step changes cpc, or pc, then.
Collects == cpc = "start" /\ cpc' \in {"exit", "nofiles", "loop"}
Processes == pc = "start" /\ pc' \in {"done", "prompt", "rename"}

\* The command runs on: a step of the program that can be taken is taken.
\* The read at the prompt is not among them: reader.ReadString (line 296)
\* blocks until the operator's line or the end of the input arrives, with
\* no timeout, so it may never return.
FairSpecCmd ==
    /\ SpecCmd
    /\ WF_cpc(Collects)
    /\ WF_pc(Processes)
    /\ WF_vars(EnterGroup)
    /\ WF_vars(Rename)
    /\ WF_vars(Finish)
    /\ WF_vars(LeaveGroup)
    /\ WF_vars(Complete)

(***************************************************************************)
(* Definitions the claims are stated with.                                 *)
(***************************************************************************)
MaxOf(S) == CHOOSE x \in S : \A y \in S : y <= x

\* The lengths k such that all strings of ss agree on their first k bytes.
SharedLens(ss) ==
    { k \in 0..Len(ss[1]) : \A j \in 1..Len(ss) : Len(ss[j]) >= k /\ Take(ss[j], k) = Take(ss[1], k) }

\* The longest common byte prefix of ss (Len(ss) >= 1).
LongestCommon(ss) == Take(ss[1], MaxOf(SharedLens(ss)))

\* The positions of p that hold a separator byte: '-', '_', ' ', ')', ']' or
\* the final byte of E3 80 91.
SepPositions(p) ==
    { i \in 1..Len(p) : \/ p[i] \in {45, 95, 32, 41, 93}
                        \/ (i >= 3 /\ SubSeq(p, i - 2, i) = <<227, 128, 145>>) }

\* p truncated to end right after its last separator byte; p itself when it
\* has none or ends with one.
CutAfterLastSep(p) ==
    IF SepPositions(p) = {} THEN p
    ELSE IF MaxOf(SepPositions(p)) = Len(p) THEN p
    ELSE Take(p, MaxOf(SepPositions(p)))

\* Whether a prefix is usable: its whitespace-trimmed form has >= 3 bytes.
Usable(p) == Len(TrimSpace(p)) >= 3

\* How many strings of ss start with p.
Sharing(ss, p) == Cardinality({ j \in 1..Len(ss) : HasPrefix(ss[j], p) })

\* The candidates of findMajorityPrefix: <<k, l>> is the first l bytes of
\* the k-th string, for l from the full length down to 3.
Candidates(ss) == { c \in (1..Len(ss)) \X (3..MaxOf({Len(ss[j]) : j \in 1..Len(ss)} \cup {3})) :
                        c[2] <= Len(ss[c[1]]) }

CandStr(ss, c) == Take(ss[c[1]], c[2])

\* c is evaluated before d: earlier source file, or same file and longer.
Before(c, d) == c[1] < d[1] \/ (c[1] = d[1] /\ c[2] > d[2])

\* max(2, floor(0.7 * n))
SpecThreshold(n) == IF (7 * n) \div 10 < 2 THEN 2 ELSE (7 * n) \div 10

(***************************************************************************)
(* C1: for at least 2 filenames whose longest common byte prefix P has     *)
(* whitespace-trimmed length >= 3, findCommonPrefix returns P truncated to *)
(* end right after the last separator byte of P, and P itself when P has   *)
(* no separator byte or its last separator is its final byte.              *)
(***************************************************************************)
C1_CommonPrefixCutAfterLastSep ==
    (fnpc = "common" /\ Len(strs) >= 2 /\ Usable(LongestCommon(strs)))
        => cpResult = CutAfterLastSep(LongestCommon(strs))

\* Reached: a usable common prefix that was truncated right after the
\* three-byte bracket, and so lost bytes that all the names share.
C1_Witness ==
    /\ fnpc = "common"
    /\ Len(strs) >= 2
    /\ strs[1] # strs[2]
    /\ Usable(LongestCommon(strs))
    /\ Len(cpResult) < Len(LongestCommon(strs))
    /\ Len(cpResult) >= 3
    /\ SubSeq(cpResult, Len(cpResult) - 2, Len(cpResult)) = <<227, 128, 145>>

(***************************************************************************)
(* C2: findMajorityPrefix applies to each qualifying candidate the same    *)
(* separator trimming as findCommonPrefix: a candidate that reaches the    *)
(* threshold is accepted whenever findCommonPrefix's trimming step yields, *)
(* for it, a form of whitespace-trimmed length >= 3, and that form is the  *)
(* prefix stored for it (a candidate without separator byte, or ending in  *)
(* one, is kept unmodified).                                               *)
(***************************************************************************)
C2_SameTrimmingAsCommon ==
    (fnpc = "majority" /\ Len(strs) >= 2)
        => \A c \in Candidates(strs) :
              (/\ matchCount(strs, CandStr(strs, c)) >= threshold(Len(strs))
               /\ Usable(smartTrim(CandStr(strs, c))))
                 => /\ majorityTrim(CandStr(strs, c)).taken
                    /\ majorityTrim(CandStr(strs, c)).final = smartTrim(CandStr(strs, c))

(***************************************************************************)
(* C3: for n >= 2 filenames, a non-empty result of findMajorityPrefix is   *)
(* the start of at least max(2, floor(0.7 * n)) of them, and when no       *)
(* prefix of length >= 3 is shared by that many the result is empty.       *)
(***************************************************************************)
C3_MajorityReachesThreshold ==
    (fnpc = "majority" /\ Len(strs) >= 2)
        => /\ mpResult # <<>> => Sharing(strs, mpResult) >= SpecThreshold(Len(strs))
           /\ (\A c \in Candidates(strs) :
                   Sharing(strs, CandStr(strs, c)) < SpecThreshold(Len(strs)))
                 => mpResult = <<>>

(***************************************************************************)
(* C4: among the accepted candidates of findMajorityPrefix the one         *)
(* returned has the highest match count, and among those of that count it  *)
(* is the first in iteration order (source files in input order, lengths   *)
(* from the full length down to 3).                                        *)
(***************************************************************************)
\* The accepted candidates: those that reach the threshold and whose
\* trimmed form is taken.
Accepted(ss) ==
    { c \in Candidates(ss) : /\ Sharing(ss, CandStr(ss, c)) >= threshold(Len(ss))
                            /\ majorityTrim(CandStr(ss, c)).taken }

\* The accepted candidates of the highest match count.
TopAccepted(ss) ==
    LET acc == Accepted(ss)
        cnt == [c \in acc |-> Sharing(ss, CandStr(ss, c))]
    IN  { c \in acc : \A d \in acc : cnt[d] <= cnt[c] }

C4_FirstHighestCountWins ==
    (fnpc = "majority" /\ Len(strs) >= 2)
        => LET top == TopAccepted(strs)
           IN  IF top = {} THEN mpResult = <<>>
               ELSE \E c \in top :
                      /\ \A d \in top : d = c \/ Before(c, d)
                      /\ mpResult = majorityTrim(CandStr(strs, c)).final

\* Reached: two accepted candidates tie at the highest count and would give
\* different prefixes; the earlier one was returned.
C4_Witness ==
    /\ fnpc = "majority"
    /\ Len(strs) >= 2
    /\ strs[1] # strs[2]
    /\ \E c, d \in TopAccepted(strs) :
          /\ Before(c, d)
          /\ majorityTrim(CandStr(strs, c)).final # majorityTrim(CandStr(strs, d)).final
          /\ mpResult = majorityTrim(CandStr(strs, c)).final

(***************************************************************************)
(* Definitions the claims about processDirectory are stated with.          *)
(***************************************************************************)
RangeOf(q) == { q[i] : i \in 1..Len(q) }

\* The directory as it was handed to processDirectory.
InitialDisk == [n \in RangeOf(files) |-> CHOOSE k \in 1..Len(files) : files[k] = n]

\* A prefix reached planning.
Planned == pc # "start" /\ prefix # NoStr

\* The whitespace-trimmed result of removing pfx from the start of name.
Stripped(name, pfx) ==
    TrimSpace(IF Len(name) >= Len(pfx) /\ SubSeq(name, 1, Len(pfx)) = pfx
              THEN SubSeq(name, Len(pfx) + 1, Len(name)) ELSE name)

\* Every planned rename was executed and succeeded.
AllRenamed ==
    /\ pc = "done"
    /\ plans # <<>>
    /\ Len(renameLog) = Len(plans)
    /\ \A i \in 1..Len(renameLog) : renameLog[i].ok

\* The operator's input, trimmed and lower-cased, is exactly "y" or "yes".
Affirmative(input) ==
    ToLower(TrimSpace(input)) \in { <<121>>, <<121, 101, 115>> }

(***************************************************************************)
(* C5: every entry of the rename plan has an old name that starts with the *)
(* detected prefix; a file whose name does not start with the prefix never *)
(* appears in the plan.                                                    *)
(***************************************************************************)
C5_PlanOnlyMatchingFiles ==
    Planned => \A i \in 1..Len(plans) : HasPrefix(plans[i].old, prefix)

(***************************************************************************)
(* C6: every entry of the rename plan has a non-empty new name that        *)
(* differs from its old name and is the whitespace-trimmed result of       *)
(* removing the prefix from the start of the old name; a file whose        *)
(* stripped name is empty is not in the plan, and every other file whose   *)
(* stripped name differs from its name is.                                 *)
(***************************************************************************)
C6_PlanEntriesNonEmptyAndChanged ==
    Planned =>
        /\ \A i \in 1..Len(plans) :
              /\ plans[i].new # <<>>
              /\ plans[i].new # plans[i].old
              /\ plans[i].new = Stripped(plans[i].old, prefix)
              /\ plans[i].old \in RangeOf(files)
        /\ \A k \in 1..Len(files) :
              LET planned == \E i \in 1..Len(plans) : plans[i].old = files[k]
              IN  /\ Stripped(files[k], prefix) = <<>> => ~planned
                  /\ (Stripped(files[k], prefix) # <<>> /\ Stripped(files[k], prefix) # files[k])
                        => planned

\* Reached: one file is left out because its stripped name is empty, and a
\* later file of the group is planned all the same.
C6_Witness ==
    /\ Planned
    /\ \E k \in 1..Len(files) :
          /\ Stripped(files[k], prefix) = <<>>
          /\ \E i \in 1..Len(plans) : \E j \in (k + 1)..Len(files) : plans[i].old = files[j]

(***************************************************************************)
(* C7: during a confirmed run no file is the source of more than one       *)
(* executed rename, and no executed rename's destination is the path of    *)
(* another file of the group or the destination of another plan entry.     *)
(***************************************************************************)
C7_EachFileTouchedOnce ==
    \A i \in 1..Len(renameLog) :
        renameLog[i].ok =>
            /\ \A j \in 1..Len(renameLog) :
                  (j # i /\ renameLog[j].ok) => renameLog[j].old # renameLog[i].old
            /\ \A k \in 1..Len(files) :
                  files[k] # renameLog[i].old => files[k] # renameLog[i].new
            /\ \A j \in 1..Len(plans) : j # i => plans[j].new # renameLog[i].new

(***************************************************************************)
(* C8: once a group's files have been renamed by stripping the detected    *)
(* prefix, detection and planning on the resulting names is a no-op.       *)
(***************************************************************************)
\* The names in the directory now, as a later run would list them.
NamesOnDisk == walkOrder(DOMAIN disk)

SecondPassIsNoOp ==
    LET d == detectPrefix(NamesOnDisk)
    IN  Len(NamesOnDisk) < 2 \/ ~d.ok \/ buildPlan(NamesOnDisk, d.prefix, 1) = <<>>

NoUsablePrefixLeft ==
    \/ Len(NamesOnDisk) < 2
    \/ /\ ~Usable(CutAfterLastSep(LongestCommon(NamesOnDisk)))
       /\ ~Usable(findMajorityPrefix(NamesOnDisk))

\* The clean case: the detected prefix is the group's whole longest common
\* prefix (the separator trimming cut nothing), and every file's remainder
\* is non-empty, has no surrounding white space and is not the name of a
\* file of the group.
CleanStrip ==
    /\ ~usedMajority
    /\ prefix = LongestCommon(files)
    /\ \A k \in 1..Len(files) :
          LET rest == SubSeq(files[k], Len(prefix) + 1, Len(files[k]))
          IN  /\ rest # <<>>
              /\ TrimSpace(rest) = rest
              /\ rest \notin RangeOf(files)

C9_DryRunChangesNothing ==
    (dryRun /\ pc # "start") =>
        /\ renameLog = <<>>
        /\ ~prompted
        /\ pc = "done"
        /\ disk = InitialDisk

\* Reached: a dry run with -y that built a non-empty plan.
C9_Witness ==
    /\ dryRun
    /\ autoYes
    /\ pc = "done"
    /\ plans # <<>>

(***************************************************************************)
(* C10: without -y and without -dry-run, renames are executed only if the  *)
(* operator's line, trimmed and lower-cased, is exactly "y" or "yes"; on   *)
(* any other input no rename of the group is executed and processDirectory *)
(* is over.                                                                *)
(***************************************************************************)
C10_OnlyYesConfirms ==
    (~autoYes /\ ~dryRun /\ pc # "start") =>
        /\ (pc = "rename" \/ renameLog # <<>>) => (prompted /\ Affirmative(stdin))
        /\ (prompted /\ pc # "prompt" /\ ~Affirmative(stdin))
              => (pc = "done" /\ renameLog = <<>> /\ disk = InitialDisk)

\* Reached: the operator typed " YES " and a rename was executed.
C10_Witness ==
    /\ ~autoYes
    /\ prompted
    /\ stdin = <<32, 89, 69, 83, 32, 13, 10>>
    /\ \E i \in 1..Len(renameLog) : renameLog[i].ok

(***************************************************************************)
(* C11: once a group is confirmed, a rename is attempted for every plan    *)
(* entry exactly once, in plan order; a failed rename does not stop the    *)
(* remaining entries; the success count is the number of renames that      *)
(* succeeded, so that successes and failures add up to the plan length;    *)
(* and processDirectory returns nil.                                       *)
(***************************************************************************)
Succeeded == { i \in 1..Len(renameLog) : renameLog[i].ok }
Failed == { i \in 1..Len(renameLog) : ~renameLog[i].ok }

C11_EveryEntryAttemptedOnce ==
    (pc \in {"rename", "done"} /\ proceed) =>
        /\ Len(renameLog) <= Len(plans)
        /\ \A i \in 1..Len(renameLog) :
              renameLog[i].old = plans[i].old /\ renameLog[i].new = plans[i].new
        /\ successCount = Cardinality(Succeeded)
        /\ pc = "rename" => Len(renameLog) = idx - 1
        /\ pc = "done" =>
              /\ Len(renameLog) = Len(plans)
              /\ successCount + Cardinality(Failed) = Len(plans)
              /\ ~retErr

\* Reached: a confirmed run is over in which a rename failed and a later
\* entry was renamed all the same.
C11_Witness ==
    /\ pc = "done"
    /\ proceed
    /\ \E i, j \in 1..Len(renameLog) : i < j /\ ~renameLog[i].ok /\ renameLog[j].ok
    /\ successCount = Len(plans) - 1

(***************************************************************************)
(* C12: in processDirectory findMajorityPrefix is invoked only after       *)
(* findCommonPrefix returned a result that is empty or whose               *)
(* whitespace-trimmed length is below 3; a prefix that reaches planning    *)
(* has whitespace-trimmed length >= 3; otherwise the group is skipped,     *)
(* with no plan and no rename.                                             *)
(***************************************************************************)
C12_MajorityOnlyAfterCommonUnusable ==
    (pc # "start" /\ Len(files) >= 2) =>
        /\ usedMajority => (commonRes = <<>> \/ ~Usable(commonRes))
        /\ ~usedMajority => prefix = commonRes
        /\ Planned => Usable(prefix)
        /\ ~Planned => (pc = "done" /\ plans = <<>> /\ renameLog = <<>> /\ disk = InitialDisk)

\* Reached: the common prefix was unusable, the majority prefix was usable
\* and files were renamed with it.
C12_Witness ==
    /\ usedMajority
    /\ Len(commonRes) > 0
    /\ Planned
    /\ \E i \in 1..Len(renameLog) : renameLog[i].ok

(***************************************************************************)
(* C13: for every filename sequence of length 0 or 1 findCommonPrefix      *)
(* returns the empty string.                                               *)
(***************************************************************************)
C13_CommonPrefixOfFewerThanTwoIsEmpty ==
    (fnpc = "common" /\ Len(strs) <= 1) => cpResult = <<>>

\* Reached: findCommonPrefix returned "" for the one name "ab-c-dx".
C13_Witness ==
    /\ fnpc = "common"
    /\ Len(strs) = 1
    /\ Len(strs[1]) > MinPrefixLen
    /\ SepPositions(strs[1]) # {}
    /\ cpResult = <<>>

(***************************************************************************)
(* C14: for a directory group of fewer than 2 files processDirectory       *)
(* computes no prefix, prints no output block, asks for no confirmation    *)
(* and executes no rename, in every mode.                                  *)
(***************************************************************************)
\* The output block of a directory starts at line 220, which is reached
\* exactly when a prefix reaches planning.
C14_FewerThanTwoFilesUntouched ==
    (pc # "start" /\ Len(files) < 2) =>
        /\ pc = "done"
        /\ commonRes = NoStr
        /\ ~usedMajority
        /\ ~Planned
        /\ plans = <<>>
        /\ ~prompted
        /\ renameLog = <<>>
        /\ disk = InitialDisk
        /\ ~retErr

\* Reached: processDirectory returned for a one-file group under -y.
C14_Witness ==
    /\ pc = "done"
    /\ Len(files) = 1
    /\ Len(files[1]) > MinPrefixLen
    /\ autoYes
    /\ ~dryRun

(***************************************************************************)
(* C15: collectFiles returns exactly the files under the root that have no *)
(* ancestor directory (the root included) whose base name is an excluded   *)
(* name and, when the extension list is non-empty, whose lower-cased       *)
(* extension is in the dot-normalised lower-cased list; no file inside an  *)
(* excluded directory, at any depth, is returned.                          *)
(***************************************************************************)
\* The directories above file q, from the root down to its parent.
AncestorDirs(q, rt) == { SubSeq(q, 1, k) : k \in Len(rt)..(Len(q) - 1) }

\* The extension of a name: what starts at its last dot.
ExtensionOf(name) ==
    LET last == { k \in 1..Len(name) :
                    name[k] = 46 /\ \A j \in (k + 1)..Len(name) : name[j] # 46 }
    IN  IF last = {} THEN <<>> ELSE SubSeq(name, CHOOSE k \in last : TRUE, Len(name))

\* Lower-casing is that of Go's strings package.
LowerCased(x) == ToLower(x)

\* The extension list with a dot in front of each entry that lacks one,
\* lower-cased.
NormalisedExtensions(exts) ==
    { LowerCased(IF Len(e) > 0 /\ e[1] = 46 THEN e ELSE <<46>> \o e) : e \in exts }

InExcludedDirectory(q) == \E a \in AncestorDirs(q, root) : a[Len(a)] \in exclude

\* The files under the root; the root itself when it is a file.
UnderRoot(q) == Len(q) >= Len(root) /\ SubSeq(q, 1, Len(root)) = root

ExpectedFiles ==
    { q \in DOMAIN tree :
        /\ UnderRoot(q)
        /\ ~InExcludedDirectory(q)
        /\ extensions # {} =>
              LowerCased(ExtensionOf(q[Len(q)])) \in NormalisedExtensions(extensions) }

\* The list is the one returned with a nil error; of a walk that ended with
\* an error it holds the files appended until then.
C15_CollectFilesExact ==
    cpc = "collected" =>
        /\ ~collectErr =>
              /\ RangeOf(collected) = ExpectedFiles
              /\ Len(collected) = Cardinality(ExpectedFiles)
        /\ RangeOf(collected) \subseteq ExpectedFiles
        /\ Len(collected) = Cardinality(RangeOf(collected))
        /\ \A i \in 1..Len(collected) : ~InExcludedDirectory(collected[i])

\* Reached: a file two levels below an excluded directory was left out, and
\* a file spelled ".MP3" was returned for an extension list whose entry
\* is spelled otherwise.
C15_Witness ==
    /\ cpc = "collected"
    /\ ~collectErr
    /\ Len(root) = 1
    /\ \E q \in DOMAIN tree :
          \E a \in AncestorDirs(q, root) : a[Len(a)] \in exclude /\ Len(a) < Len(q) - 1
    /\ \E i \in 1..Len(collected) :
          /\ ExtensionOf(Base(collected[i])) = <<46, 77, 80, 51>>
          /\ <<46, 77, 80, 51>> \notin extensions
          /\ extensions # {}

(***************************************************************************)
(* C16: groupFilesByDirectory partitions its input: every input path is in *)
(* exactly one group, the one keyed by its parent directory; a group holds *)
(* only paths with that parent, in the order of the input; the number of   *)
(* groups is the number of distinct parent directories.                    *)
(***************************************************************************)
ParentOf(q) == SubSeq(q, 1, Len(q) - 1)

Parents == { ParentOf(paths[i]) : i \in 1..Len(paths) }

\* The paths of the input whose parent is d, in input order.
WithParent(d) ==
    LET HasParent(q) == ParentOf(q) = d
    IN  SelectSeq(paths, HasParent)

C16_GroupsPartitionInput ==
    cpc = "grouped" =>
        /\ DOMAIN groups = Parents
        /\ Cardinality(DOMAIN groups) = Cardinality(Parents)
        /\ \A d \in DOMAIN groups : groups[d] = WithParent(d)
        /\ \A i \in 1..Len(paths) :
              { d \in DOMAIN groups : paths[i] \in RangeOf(groups[d]) } = { ParentOf(paths[i]) }

\* Reached: two different files of one directory with a file of another
\* directory between them.
C16_Witness ==
    /\ cpc = "grouped"
    /\ Len(paths) = 3
    /\ ParentOf(paths[1]) = ParentOf(paths[3])
    /\ ParentOf(paths[1]) # ParentOf(paths[2])
    /\ paths[1] # paths[3]
    /\ Cardinality(DOMAIN groups) = 2

(***************************************************************************)
(* C17: a read error at the confirmation prompt of one directory group     *)
(* causes no rename in that group and is reported, and it does not stop    *)
(* the command: every remaining group is still passed to processDirectory  *)
(* and the run reaches its completion message.                             *)
(***************************************************************************)
\* processDirectory has returned an error for the group of dir.
GroupFailed == cpc = "loop" /\ pc = "done" /\ retErr

C17_ErrorKeptInsideGroup ==
    /\ (retErr /\ pc \in {"done", "idle"}) =>
          /\ renameLog = <<>>
          /\ listing(tree, dir) = listing(tree0, dir)
    /\ (retErr /\ pc = "idle") => dir \in reported
    /\ cpc = "complete" => pending = {}

\* C17 as it is stated: completion follows every failure.
C17_ReadErrorDoesNotStopDriver ==
    /\ []C17_ErrorKeptInsideGroup
    /\ GroupFailed ~> (cpc = "complete")
    /\ \A d \in CmdDirs :
          (GroupFailed /\ d \in pending) ~> (dir = d /\ pc = "start")

\* From some point on the command waits at a prompt whose read never returns.
WaitsForOperatorForever == <>[](pc = "prompt")

\* A group leaves the pending ones only by being passed to processDirectory.
PendingLeavesByCall ==
    (cpc = "loop" /\ pending' # pending) =>
        \E d \in pending : pending' = pending \ {d} /\ dir' = d /\ pc' = "start"

\* C17 as amended: the failed group is left untouched and its error is
\* printed; the loop then goes on, to the next group when one is pending;
\* and unless a later prompt waits for ever, the run reaches its completion
\* message, with every pending group passed to processDirectory before.
C17_ReadErrorDoesNotStopLoop ==
    /\ []C17_ErrorKeptInsideGroup
    /\ [][PendingLeavesByCall]_vars
    /\ GroupFailed ~> (pc = "idle" /\ dir \in reported)
    /\ (GroupFailed /\ pending # {}) ~> (pc = "start" /\ dir \notin reported)
    /\ WaitsForOperatorForever
          \/ [](GroupFailed => <>(cpc = "complete" /\ pending = {}))

\* Reached: the run is complete, an error was reported for one group, and
\* the group visited last, after it, was renamed.
C17_Witness ==
    /\ cpc = "complete"
    /\ reported # {}
    /\ dir \notin reported
    /\ \E i \in 1..Len(renameLog) : renameLog[i].ok

(***************************************************************************)
(* C19: with -y the final filenames of every directory are the same for    *)
(* every order in which removePrefixCommand visits the groups: an executed *)
(* rename has its source and its destination in the group's own            *)
(* directory, so that processing one group never changes the files another *)
(* group sees.                                                             *)
(***************************************************************************)
\* The renames of plan pl from entry k on, applied to file system t.
RECURSIVE ApplyPlan(_, _, _, _)
ApplyPlan(t, d, pl, k) ==
    IF k > Len(pl) THEN t
    ELSE ApplyPlan(osRename(t, pathOf(d, pl[k].old), joinPath(d, pl[k].new),
                            pathOf(d, pl[k].old) \in refuse).disk,
                   d, pl, k + 1)

\* What a confirmed processDirectory makes of file system t for the group
\* of directory d.
RunGroup(t, d) ==
    LET names == [i \in 1..Len(groups[d]) |-> Base(groups[d][i])]
    IN  IF Len(names) < 2 THEN t
        ELSE IF ~detectPrefix(names).ok THEN t
        ELSE ApplyPlan(t, d, buildPlan(names, detectPrefix(names).prefix, 1), 1)

\* The groups of ds run one after the other, in one fixed order.
RECURSIVE RunGroups(_, _)
RunGroups(t, ds) ==
    IF ds = {} THEN t
    ELSE LET d == CHOOSE x \in ds : TRUE
         IN  RunGroups(RunGroup(t, d), ds \ {d})

C19_GroupOrderDoesNotMatter ==
    (autoYes /\ cpc \in {"loop", "complete"}) =>
        /\ \A i \in 1..Len(renameLog) :
              renameLog[i].ok =>
                  /\ Dir(pathOf(dir, renameLog[i].old)) = dir
                  /\ Dir(joinPath(dir, renameLog[i].new)) = dir
        /\ \A d \in pending : listing(tree, d) = listing(tree0, d)
        /\ \A q \in DOMAIN tree0 :
              Dir(q) \notin DOMAIN groups => (q \in DOMAIN tree /\ tree[q] = tree0[q])
        /\ cpc = "complete" =>
              tree = IF dryRun THEN tree0 ELSE RunGroups(tree0, DOMAIN groups)

\* Reached: the run under -y is complete and the files of two directories
\* were renamed.
C19_Witness ==
    /\ cpc = "complete"
    /\ autoYes
    /\ \E d, e \in DOMAIN groups :
          /\ d # e
          /\ DOMAIN listing(tree, d) # DOMAIN listing(tree0, d)
          /\ DOMAIN listing(tree, e) # DOMAIN listing(tree0, e)

(***************************************************************************)
(* C18: processDirectory skips a group (no plan, no rename) whenever the   *)
(* detected prefix, after whitespace stripping, has fewer than 3           *)
(* characters, a multi-byte UTF-8 character counting as one.               *)
(***************************************************************************)
\* The number of characters of a valid UTF-8 string: its bytes that are not
\* continuation bytes (80..BF).
RuneCount(s) == Cardinality({ i \in 1..Len(s) : s[i] < 128 \/ s[i] >= 192 })

C18_ShortPrefixInCharactersSkipped ==
    Planned => RuneCount(TrimSpace(prefix)) >= MinPrefixLen

=============================================================================
